---------------------------- MODULE Spec2Model ----------------------------
(***************************************************************************)
(* A model of scripts/later.py: the registry of saved conversations        *)
(* (save / list / done / remove over one JSON file), the history           *)
(* correlator find_session_id_for_cwd, and the process discoverer          *)
(* get_active_claude_sessions.                                             *)
(*                                                                         *)
(* Four specifications share the module's variables:                       *)
(*   Spec          one invocation of the tool at a time (the tool is       *)
(*                 synchronous and single-threaded);                       *)
(*   SpecConc      two invocations racing on the registry file, a step     *)
(*                 for each of load, handler, open-for-writing and dump;   *)
(*   SpecHistory   find_session_id_for_cwd / get-session-id over history   *)
(*                 logs;                                                   *)
(*   SpecDiscover  the discovery scan over ps and lsof outcomes.           *)
(***************************************************************************)
EXTENDS Integers, Sequences, FiniteSets

VARIABLES
    file,       \* registry.json: [exists, text, doc, len], see Registry store
    clock,      \* number of datetime.now() calls made so far
    before,     \* the file as it was when the last command started
    cmd,        \* the last command and its arguments
    out,        \* what the last command printed (one record per message)
    exitcode,   \* the last command's exit code
    wrote,      \* whether the last command called save_registry
    pc,         \* SpecConc: each process's position in its invocation
    pcmd,       \* SpecConc: each process's command and arguments
    local,      \* SpecConc: the `registry` variable of each process
    written,    \* SpecConc: the last json.dump call, if any: << [proc, doc] >>
    launched,   \* SpecConc: number of invocations started so far
    torn,       \* SpecConc: some step on the file fell between another
                \* process's open-for-writing and its dump
    history,    \* history.jsonl: [exists, lines]
    target,     \* the --cwd argument of get-session-id
    found,      \* the outcome of find_session_id_for_cwd
    hexit,      \* the exit code of get-session-id
    psRun,      \* the outcome of `ps aux`
    excludePid, \* the --exclude-pid argument (0: not given)
    lsofRun,    \* the outcome of each loop iteration's lsof call so far
    scan,       \* where get_active_claude_sessions is: [phase, claude_pids, i]
    sessions    \* the list get_active_claude_sessions has built so far

regVars  == <<file, clock, before, cmd, out, exitcode, wrote>>
concVars == <<pc, pcmd, local, written, launched, torn>>
histVars == <<history, target, found, hexit>>
discVars == <<psRun, excludePid, lsofRun, scan, sessions>>
vars     == <<regVars, concVars, histVars, discVars>>

-----------------------------------------------------------------------------
(* Values *)

\* Python's None, for the string-valued fields and arguments.
None == "<None>"

\* The largest number of datetime.now() calls a behaviour makes.
MaxClock == 3

Sessions     == {"s1", "s2"}
ProjectArgs  == {"/p", "/q"}
\* --description: not given (None), the empty string, or a text.
Descriptions == {None, "", "x"}
\* --id of done / remove.
IdArgs       == 1 .. (Cardinality(Sessions) + 1)

\* Python truthiness of an optional string.
Truthy(s) == s # None /\ s # ""

\* a or b or c
Or3(a, b, c) == IF Truthy(a) THEN a ELSE IF Truthy(b) THEN b ELSE c

\* What a call gives back: a value, or an exception that nothing catches.
Returned(value) == [ran |-> TRUE, raised |-> FALSE, value |-> value]
Raised          == [ran |-> TRUE, raised |-> TRUE, value |-> None]

-----------------------------------------------------------------------------
(* Registry store.  The registry file is a record:                          *)
(*   exists  whether the path exists;                                       *)
(*   text    "whole": the bytes are one JSON document, `doc`;               *)
(*           "empty": no bytes (open(path, "w") has truncated the file);    *)
(*           "mixed": the document `doc` followed by the rest of a longer   *)
(*                    text that was there, which json.load rejects;         *)
(*   len     the number of characters in the file.                          *)

EmptyRegistry == [conversations |-> << >>]

\* A datetime.now(): `at` counts the calls made so far, `micro` tells
\* whether its microsecond field is nonzero.
Time(at, micro) == [at |-> at, micro |-> micro]

\* The completedAt of an entry that has no such key.
NoTime == Time(0, FALSE)

\* len(t.isoformat()): "2026-01-01T00:00:00.123456", or, the microsecond
\* being 0, "2026-01-01T00:00:00" without the fraction.
IsoLen(t) == IF t.micro THEN 26 ELSE 19

\* len(json.dumps(s)) of an optional string of the model.
JsonLen(s) == IF s = None THEN 4 ELSE Len(s) + 2

\* The characters json.dump(indent=2) writes for one entry: the braces,
\* keys, separators and indentation, a one-digit id, the strings, the
\* quoted timestamps and, where the entry has one, the completedAt line.
EntryLen(c) ==
    147 + 1 + JsonLen(c.sessionId) + JsonLen(c.project)
    + JsonLen(c.description) + JsonLen(c.firstPrompt)
    + (IsoLen(c.savedAt) + 2) + JsonLen(c.status)
    + (IF c.completedAt # NoTime THEN 23 + IsoLen(c.completedAt) + 2 ELSE 0)

RECURSIVE EntriesLen(_, _)
EntriesLen(conversations, k) ==
    IF k > Len(conversations) THEN 0
    ELSE EntryLen(conversations[k]) + EntriesLen(conversations, k + 1)

\* len(json.dumps(registry, indent=2))
TextLen(registry) ==
    IF registry.conversations = << >> THEN 25
    ELSE 29 + EntriesLen(registry.conversations, 1)
         + 2 * (Len(registry.conversations) - 1)

WholeFile(registry) ==
    [exists |-> TRUE, text |-> "whole", doc |-> registry,
     len |-> TextLen(registry)]

NoFile    == [exists |-> FALSE, text |-> "empty", doc |-> EmptyRegistry,
              len |-> 0]
EmptyFile == WholeFile(EmptyRegistry)

\* json.load raises JSONDecodeError on a file that is not one document.
load_registry(f) ==
    IF ~f.exists THEN Returned(EmptyRegistry)
    ELSE IF f.text = "whole" THEN Returned(f.doc)
    ELSE Raised

\* open(REGISTRY_PATH, "w"): the file exists and is truncated.
open_w(f) ==
    [exists |-> TRUE, text |-> "empty", doc |-> EmptyRegistry, len |-> 0]

\* json.dump(registry, f, indent=2) and the close of f: the text is written
\* from offset 0 of the file as it is then; what the file holds beyond the
\* end of the text stays.
json_dump(f, registry) ==
    IF f.len > TextLen(registry)
    THEN [exists |-> TRUE, text |-> "mixed", doc |-> registry, len |-> f.len]
    ELSE WholeFile(registry)

\* save_registry with no other process acting between its two steps.
save_registry(f, registry) == json_dump(open_w(f), registry)

RECURSIVE MaxOf(_)
MaxOf(S) ==
    LET x == CHOOSE y \in S : TRUE
    IN  IF S = {x} THEN x
        ELSE LET m == MaxOf(S \ {x}) IN IF x > m THEN x ELSE m

next_id(registry) ==
    IF registry.conversations = << >> THEN 1
    ELSE MaxOf({registry.conversations[i].id :
                   i \in DOMAIN registry.conversations}) + 1

\* Where a `for c in registry["conversations"]: if ...: ... return` loop
\* stops: the first of the indices whose entry passes the test (0: the
\* loop runs to its end).
FirstIndex(hits) ==
    IF hits = {} THEN 0
    ELSE CHOOSE i \in hits : \A j \in hits : i <= j

-----------------------------------------------------------------------------
(* history.jsonl.  A path is the sequence of its pieces; a line of the log  *)
(* is what json.loads makes of it:                                          *)
(*   "malformed"  json.loads raises JSONDecodeError (a blank line too);     *)
(*   "nonobject"  it parses to null, a number, a string or an array, none   *)
(*                of which has a .get;                                      *)
(*   "object"     it parses to a dict with the keys in `keys`; display is   *)
(*                a text or None (JSON null).                               *)

Malformed == [kind |-> "malformed", keys |-> {}, project |-> << >>,
              sessionId |-> None, display |-> None]
NonObject == [kind |-> "nonobject", keys |-> {}, project |-> << >>,
              sessionId |-> None, display |-> None]
Object(keys, project, sessionId, display) ==
    [kind |-> "object", keys |-> keys,
     project |-> IF "project" \in keys THEN project ELSE << >>,
     sessionId |-> IF "sessionId" \in keys THEN sessionId ELSE None,
     display |-> IF "display" \in keys THEN display ELSE None]

\* entry.get("project", "")
GetProject(entry) ==
    IF "project" \in entry.keys THEN entry.project ELSE << >>

\* entry.get("sessionId")
GetSessionId(entry) ==
    IF "sessionId" \in entry.keys THEN entry.sessionId ELSE None

\* The `for line in f` loop of get_first_prompt from line i on.  The texts
\* of the model are shorter than 120 characters: [:120] leaves them whole.
RECURSIVE FirstPromptFrom(_, _, _)
FirstPromptFrom(lines, i, session_id) ==
    IF i > Len(lines) THEN Returned(None)
    ELSE CASE lines[i].kind = "malformed" ->      \* except JSONDecodeError
                FirstPromptFrom(lines, i + 1, session_id)
           [] lines[i].kind = "nonobject" ->      \* entry.get: AttributeError
                Raised
           [] lines[i].kind = "object" ->
                IF GetSessionId(lines[i]) # session_id
                THEN FirstPromptFrom(lines, i + 1, session_id)
                ELSE IF "display" \notin lines[i].keys THEN Returned("")
                ELSE IF lines[i].display = None    \* None[:120]: TypeError
                THEN Raised
                ELSE Returned(lines[i].display)

get_first_prompt(h, session_id) ==
    IF ~h.exists THEN Returned(None)
    ELSE FirstPromptFrom(h.lines, 1, session_id)

\* The history logs the registry commands run beside: none; one on which
\* get_first_prompt returns a text for s1 and raises AttributeError for s2;
\* one on which it returns "" for s2 and raises TypeError for s1.
PromptHistories ==
    { [exists |-> FALSE, lines |-> << >>],
      [exists |-> TRUE,
       lines |-> << Malformed,
                    Object({"sessionId", "display"}, << >>, "s1", "fp"),
                    NonObject >>],
      [exists |-> TRUE,
       lines |-> << Object({"sessionId"}, << >>, "s2", None),
                    Object({"sessionId", "display"}, << >>, "s1", None) >>] }

-----------------------------------------------------------------------------
(* Commands.  Each handler is an operator from the loaded document, the     *)
(* arguments and the value of datetime.now() to what the handler does:      *)
(*   registry  the document as the handler leaves it in memory,             *)
(*   save      whether it calls save_registry(registry),                    *)
(*   out       what it prints,                                              *)
(*   exit      its exit code,                                               *)
(*   ticks     how many times it calls datetime.now().                      *)

Msg(kind, section, id, text) ==
    [kind |-> kind, section |-> section, id |-> id, text |-> text]

Outcome(registry, save, o, exit, ticks) ==
    [registry |-> registry, save |-> save, out |-> o, exit |-> exit,
     ticks |-> ticks]

Args(name, session_id, project, description, id, all) ==
    [name |-> name, session_id |-> session_id, project |-> project,
     description |-> description, id |-> id, all |-> all]

NoCmd == Args("none", None, None, None, 0, FALSE)

\* An exception nothing catches: the traceback, and exit status 1.
Traceback(registry) ==
    Outcome(registry, FALSE, << Msg("traceback", "", 0, "") >>, 1, 0)

\* A reactivation that appends a fresh entry instead of reusing the old one.
SaveExisting_Append(registry, args, now, i) ==
    LET c     == registry.conversations[i]
        ids   == {registry.conversations[k].id :
                     k \in DOMAIN registry.conversations}
        fresh == [c EXCEPT !.id = Cardinality(ids) + 1, !.status = "active",
                           !.savedAt = now]
    IN  IF c.status = "active"
        THEN [registry |-> registry, save |-> FALSE,
              out |-> << [kind |-> "already_saved", section |-> "",
                          id |-> c.id, text |-> c.description] >>,
              exit |-> 0, ticks |-> 0]
        ELSE [registry |-> [registry EXCEPT
                               !.conversations = Append(@, fresh)],
              save |-> TRUE,
              out |-> << [kind |-> "saved", section |-> "", id |-> fresh.id,
                          text |-> c.description] >>,
              exit |-> 0, ticks |-> 1]

\* A reactivation that does not look at the entry's status first.
SaveExisting_NoActiveCheck(registry, args, now, i) ==
    LET c  == registry.conversations[i]
        d  == IF Truthy(args.description) THEN args.description
              ELSE c.description
        c2 == [c EXCEPT !.status = "active", !.savedAt = now,
                        !.description = d]
    IN  [registry |-> [registry EXCEPT !.conversations[i] = c2],
         save |-> TRUE,
         out |-> << [kind |-> "reactivated", section |-> "", id |-> c.id,
                     text |-> d] >>,
         exit |-> 0, ticks |-> 1]

\* Lines 266-280 of cmd_save: the entry at index i has this session id.
SaveExisting(registry, args, now, i) ==
    LET c == registry.conversations[i]
    IN  IF c.status = "active"
        THEN Outcome(registry, FALSE,
                     << Msg("already_saved", "", c.id, c.description) >>, 0, 0)
        ELSE LET d == IF Truthy(args.description) THEN args.description
                      ELSE c.description
                 c2 == [c EXCEPT !.status = "active", !.savedAt = now,
                                 !.description = d]
                 r2 == [registry EXCEPT !.conversations[i] = c2]
             IN  Outcome(r2, TRUE,
                         << Msg("reactivated", "", c.id, d) >>, 0, 1)

\* Lines 282-300 of cmd_save: no entry has this session id.
SaveNew(registry, args, now) ==
    LET first_prompt == get_first_prompt(history, args.session_id)
        description == Or3(args.description, first_prompt.value,
                           "No description")
        entry == [id          |-> next_id(registry),
                  sessionId   |-> args.session_id,
                  project     |-> args.project,
                  description |-> description,
                  firstPrompt |-> first_prompt.value,
                  savedAt     |-> now,
                  status      |-> "active",
                  completedAt |-> NoTime]   \* the entry has no such key
        r2 == [registry EXCEPT
                  !.conversations = Append(registry.conversations, entry)]
    IN  IF first_prompt.raised THEN Traceback(registry)
        ELSE Outcome(r2, TRUE, << Msg("saved", "", entry.id, description) >>,
                     0, 1)

\* A save that never looks for an existing entry.
cmd_save_AlwaysAppend(registry, args, now) == SaveNew(registry, args, now)

cmd_save(registry, args, now) ==
    LET i == FirstIndex({k \in DOMAIN registry.conversations :
                registry.conversations[k].sessionId = args.session_id})
    IN  IF i # 0 THEN SaveExisting(registry, args, now, i)
        ELSE SaveNew(registry, args, now)

\* A not-found path that returns instead of calling sys.exit(1).
NotFound_ExitZero(registry, args) ==
    [registry |-> registry, save |-> FALSE,
     out |-> << [kind |-> "not_found", section |-> "", id |-> args.id,
                 text |-> ""] >>,
     exit |-> 0, ticks |-> 0]

NotFound(registry, args) ==
    Outcome(registry, FALSE, << Msg("not_found", "", args.id, "") >>, 1, 0)

cmd_done(registry, args, now) ==
    LET i == FirstIndex({k \in DOMAIN registry.conversations :
                registry.conversations[k].id = args.id})
    IN  IF i = 0 THEN NotFound(registry, args)
        ELSE LET c  == registry.conversations[i]
                 c2 == [c EXCEPT !.status = "done", !.completedAt = now]
             IN  Outcome([registry EXCEPT !.conversations[i] = c2], TRUE,
                         << Msg("marked_done", "", args.id, c.description) >>,
                         0, 1)

cmd_remove(registry, args, now) ==
    LET i == FirstIndex({k \in DOMAIN registry.conversations :
                registry.conversations[k].id = args.id})
    IN  IF i = 0 THEN NotFound(registry, args)
        ELSE LET c  == registry.conversations[i]
                 c2 == [c EXCEPT !.status = "removed"]
             IN  Outcome([registry EXCEPT !.conversations[i] = c2], TRUE,
                         << Msg("removed", "", args.id, c.description) >>,
                         0, 0)

\* A status filter that keeps every entry.
WithStatus_NoFilter(conversations, status) == conversations

\* [c for c in conversations if c["status"] == status]
WithStatus(conversations, status) ==
    SelectSeq(conversations, LAMBDA c : c.status = status)

\* One printed section of cmd_list: its heading, then an item per entry.
Section(name, entries) ==
    << Msg("header", name, 0, "") >> \o
    [k \in DOMAIN entries |->
        Msg("item", name, entries[k].id, entries[k].description)]

cmd_list(registry, args) ==
    LET conversations == IF args.all THEN registry.conversations
                         ELSE WithStatus(registry.conversations, "active")
        active  == WithStatus(conversations, "active")
        done    == WithStatus(conversations, "done")
        removed == WithStatus(conversations, "removed")
        printed ==
            IF conversations = << >>
            THEN << Msg("no_saved", "", 0, "") >> \o
                 (IF ~args.all THEN << Msg("hint_all", "", 0, "") >>
                  ELSE << >>)
            ELSE (IF active # << >> THEN Section("Active", active)
                  ELSE << >>) \o
                 (IF args.all /\ done # << >> THEN Section("Completed", done)
                  ELSE << >>) \o
                 (IF args.all /\ removed # << >>
                  THEN Section("Removed", removed) ELSE << >>)
    IN  Outcome(registry, FALSE, printed, 0, 0)

\* main(): the dispatch on args.command.
Run(registry, args, now) ==
    CASE args.name = "save"   -> cmd_save(registry, args, now)
      [] args.name = "list"   -> cmd_list(registry, args)
      [] args.name = "done"   -> cmd_done(registry, args, now)
      [] args.name = "remove" -> cmd_remove(registry, args, now)

SaveArgs ==
    {Args("save", s, p, d, 0, FALSE) :
        s \in Sessions, p \in ProjectArgs, d \in Descriptions}
ListArgs   == {Args("list", None, None, None, 0, a) : a \in BOOLEAN}
DoneArgs   == {Args("done", None, None, None, n, FALSE) : n \in IdArgs}
RemoveArgs == {Args("remove", None, None, None, n, FALSE) : n \in IdArgs}

-----------------------------------------------------------------------------
(* Spec: one invocation at a time.  An invocation loads the file, runs the  *)
(* handler and, where the handler saves, overwrites the file.               *)

\* The effect of one whole invocation whose handler did r.
Effect(args, r) ==
    /\ clock + r.ticks <= MaxClock
    /\ before' = file
    /\ cmd' = args
    /\ file' = IF r.save THEN save_registry(file, r.registry) ELSE file
    /\ out' = r.out
    /\ exitcode' = r.exit
    /\ wrote' = r.save
    /\ clock' = clock + r.ticks

\* registry = load_registry(), then the rest of the handler, whose
\* datetime.now() falls on a whole second or not.
Invoke(args) ==
    LET registry == load_registry(file)
    IN  IF registry.raised THEN Effect(args, Traceback(EmptyRegistry))
        ELSE \E micro \in IF Run(registry.value, args,
                                  Time(clock + 1, TRUE)).ticks = 0
                           THEN {TRUE} ELSE BOOLEAN :
                Effect(args, Run(registry.value, args, Time(clock + 1, micro)))

Save ==
    /\ \E a \in SaveArgs : Invoke(a)
    /\ UNCHANGED <<concVars, histVars, discVars>>

List ==
    /\ \E a \in ListArgs : Invoke(a)
    /\ UNCHANGED <<concVars, histVars, discVars>>

Done ==
    /\ \E a \in DoneArgs : Invoke(a)
    /\ UNCHANGED <<concVars, histVars, discVars>>

Remove ==
    /\ \E a \in RemoveArgs : Invoke(a)
    /\ UNCHANGED <<concVars, histVars, discVars>>

IdleConc == /\ pc = [p \in {1, 2} |-> "idle"]
            /\ pcmd = [p \in {1, 2} |-> NoCmd]
            /\ local = [p \in {1, 2} |-> EmptyRegistry]
            /\ written = << >>
            /\ launched = 0
            /\ torn = FALSE
IdleHist == /\ history = [exists |-> FALSE, lines |-> << >>]
            /\ target = << >>
            /\ found = [ran |-> FALSE, raised |-> FALSE, value |-> None]
            /\ hexit = 0
IdleDisc == /\ psRun = [raised |-> FALSE, rows |-> << >>]
            /\ excludePid = 0
            /\ lsofRun = << >>
            /\ scan = [phase |-> "start", claude_pids |-> << >>, i |-> 1]
            /\ sessions = << >>
IdleReg  == /\ file = NoFile
            /\ clock = 0
            /\ before = NoFile
            /\ cmd = NoCmd
            /\ out = << >>
            /\ exitcode = 0
            /\ wrote = FALSE

Init == /\ file \in {NoFile, EmptyFile}
        /\ clock = 0
        /\ before = file
        /\ cmd = NoCmd
        /\ out = << >>
        /\ exitcode = 0
        /\ wrote = FALSE
        /\ history \in PromptHistories
        /\ target = << >>
        /\ found = [ran |-> FALSE, raised |-> FALSE, value |-> None]
        /\ hexit = 0
        /\ IdleConc /\ IdleDisc

Next == Save \/ List \/ Done \/ Remove

Spec == Init /\ [][Next]_vars

-----------------------------------------------------------------------------
(* SpecConc: two invocations of a mutating command race on the file.  No    *)
(* lock is taken and nothing is renamed into place.  An invocation is four  *)
(* steps: load_registry reads the file; the handler changes the document in *)
(* memory and reads the time; save_registry opens the file for writing,     *)
(* which empties it; json.dump writes the document.  The other process may  *)
(* act between any two of them.                                             *)

Procs == {1, 2}

\* The largest number of invocations a behaviour starts.
MaxLaunch == 3

\* The mutating commands the racing invocations run.
ConcArgs ==
    {Args("save", s, "/p", d, 0, FALSE) : s \in Sessions, d \in {None, "x"}}
    \cup DoneArgs \cup RemoveArgs

\* The history logs the racing invocations run beside: none, and one on
\* which get_first_prompt returns for s1 and raises for s2.
ConcHistories ==
    { [exists |-> FALSE, lines |-> << >>],
      [exists |-> TRUE,
       lines |-> << Object({"sessionId", "display"}, << >>, "s1", "fp"),
                    NonObject >>] }

\* The other process has opened the file for writing and not yet written.
OtherIsWriting(p) == \E q \in Procs \ {p} : pc[q] = "opened"

\* The process ends, and its memory with it.
Exit(p) ==
    /\ pc' = [pc EXCEPT ![p] = "idle"]
    /\ pcmd' = [pcmd EXCEPT ![p] = NoCmd]
    /\ local' = [local EXCEPT ![p] = EmptyRegistry]

\* registry = load_registry(), the first statement of every handler; a file
\* that json.load rejects ends the invocation with a traceback.
Load(p) ==
    /\ pc[p] = "idle"
    /\ launched < MaxLaunch
    /\ launched' = launched + 1
    /\ LET registry == load_registry(file)
       IN  IF registry.raised
           THEN UNCHANGED <<pc, pcmd, local>>
           ELSE /\ \E a \in ConcArgs : pcmd' = [pcmd EXCEPT ![p] = a]
                /\ local' = [local EXCEPT ![p] = registry.value]
                /\ pc' = [pc EXCEPT ![p] = "loaded"]
    /\ torn' = (torn \/ OtherIsWriting(p))
    /\ UNCHANGED <<regVars, written, histVars, discVars>>

\* The handler between its load_registry() and its save_registry(): the
\* lookup, the change of the document in memory and the datetime.now() of
\* that change.  A handler that does not save ends here, and the process
\* with it.  (What the handler prints and its exit code are those of Spec
\* and are not kept here.)
Handle(p) ==
    /\ pc[p] = "loaded"
    /\ \E micro \in BOOLEAN :
          LET r == Run(local[p], pcmd[p], Time(clock + 1, micro))
          IN  /\ clock' = clock + r.ticks
              /\ IF r.save
                 THEN /\ local' = [local EXCEPT ![p] = r.registry]
                      /\ pc' = [pc EXCEPT ![p] = "handled"]
                      /\ UNCHANGED pcmd
                 ELSE Exit(p)
    /\ UNCHANGED <<file, before, cmd, out, exitcode, wrote, written,
                   launched, torn, histVars, discVars>>

\* save_registry, lines 39-40: mkdir, then open(REGISTRY_PATH, "w").
Open(p) ==
    /\ pc[p] = "handled"
    /\ file' = open_w(file)
    /\ pc' = [pc EXCEPT ![p] = "opened"]
    /\ torn' = (torn \/ OtherIsWriting(p))
    /\ UNCHANGED <<clock, before, cmd, out, exitcode, wrote, pcmd, local,
                   written, launched, histVars, discVars>>

\* One json.dump, as the race's record keeps it.
SaveRecord(p) == [proc |-> p, doc |-> local[p]]

\* save_registry, line 41: json.dump and the close of the file.
Dump(p) ==
    /\ pc[p] = "opened"
    /\ file' = json_dump(file, local[p])
    /\ written' = << SaveRecord(p) >>
    /\ Exit(p)
    /\ torn' = (torn \/ OtherIsWriting(p))
    /\ UNCHANGED <<clock, before, cmd, out, exitcode, wrote, launched,
                   histVars, discVars>>

InitConc == /\ file \in {NoFile, EmptyFile}
            /\ clock = 0
            /\ before = file
            /\ cmd = NoCmd
            /\ out = << >>
            /\ exitcode = 0
            /\ wrote = FALSE
            /\ history \in ConcHistories
            /\ target = << >>
            /\ found = [ran |-> FALSE, raised |-> FALSE, value |-> None]
            /\ hexit = 0
            /\ IdleConc /\ IdleDisc

NextConc == \E p \in Procs : Load(p) \/ Handle(p) \/ Open(p) \/ Dump(p)

SpecConc == InitConc /\ [][NextConc]_vars

-----------------------------------------------------------------------------
(* History correlator: find_session_id_for_cwd and get-session-id over the *)
(* history logs of at most MaxLines lines.                                  *)

MaxLines == 3

Targets == { << >>, <<"/", "a">>, <<"/", "b">> }

ObjectLines ==
    {Object(k, p, sid, None) :
        k \in SUBSET {"project", "sessionId"}, p \in Targets,
        sid \in {"s1", "s2"}}

HistoryLines == {Malformed, NonObject} \cup ObjectLines

SeqsUpTo(S, n) == UNION {[1 .. k -> S] : k \in 0 .. n}

HistoryFiles ==
    {[exists |-> FALSE, lines |-> << >>]} \cup
    {[exists |-> TRUE, lines |-> l] : l \in SeqsUpTo(HistoryLines, MaxLines)}

\* The `for line in f` loop of find_session_id_for_cwd from line i on,
\* with `best` as the lines before i left it.
RECURSIVE ScanFrom(_, _, _, _)
ScanFrom(lines, i, best, cwd) ==
    IF i > Len(lines) THEN Returned(best)
    ELSE CASE lines[i].kind = "malformed" ->      \* except JSONDecodeError
                ScanFrom(lines, i + 1, best, cwd)
           [] lines[i].kind = "nonobject" ->      \* entry.get: AttributeError
                Raised
           [] lines[i].kind = "object" ->
                IF GetProject(lines[i]) = cwd
                THEN ScanFrom(lines, i + 1, GetSessionId(lines[i]), cwd)
                ELSE ScanFrom(lines, i + 1, best, cwd)

find_session_id_for_cwd(h, cwd) ==
    IF ~h.exists THEN Returned(None)
    ELSE ScanFrom(h.lines, 1, None, cwd)

\* cmd_get_session_id: the exit code (an uncaught exception ends the
\* interpreter with status 1).
GetSessionIdExit(r) ==
    IF r.raised THEN 1
    ELSE IF r.value # None /\ r.value # "" THEN 0
    ELSE 1

\* get-session-id --cwd PATH
CmdGetSessionId ==
    /\ \E cwd \in Targets :
          LET r == find_session_id_for_cwd(history, cwd)
          IN  /\ target' = cwd
              /\ found' = r
              /\ hexit' = GetSessionIdExit(r)
    /\ UNCHANGED <<history, regVars, concVars, discVars>>

\* Another program appends a line to the log (the log is append-only);
\* what the last scan returned is no longer about this log.
AppendLine ==
    /\ history.exists
    /\ Len(history.lines) < MaxLines
    /\ \E l \in HistoryLines :
          history' = [history EXCEPT !.lines = Append(@, l)]
    /\ target' = << >>
    /\ found' = [ran |-> FALSE, raised |-> FALSE, value |-> None]
    /\ hexit' = 0
    /\ UNCHANGED <<regVars, concVars, discVars>>

InitHistory == /\ history \in HistoryFiles
               /\ target = << >>
               /\ found = [ran |-> FALSE, raised |-> FALSE, value |-> None]
               /\ hexit = 0
               /\ IdleReg /\ IdleConc /\ IdleDisc

NextHistory == CmdGetSessionId \/ AppendLine

SpecHistory == InitHistory /\ [][NextHistory]_vars

-----------------------------------------------------------------------------
(* Process discoverer.  A string the code takes apart is the sequence of    *)
(* its pieces, "/" always a piece of its own: "/usr/claude" is              *)
(* <<"/", "usr", "/", "claude">>, the tty "s001" is <<"s0", "01">>, the     *)
(* state "S+" is <<"S", "+">>.  A %CPU column is what float() makes of it:  *)
(* tenths of a percent, or not a number.                                    *)

\* The largest number of lines `ps aux` prints.
MaxProcs == 2

Pids == {101, 102}

\* line.split() of one line of `ps aux`: the number of parts, and the parts
\* the code reads (parts[10], [1], [2], [6], [7], [8]).
PsRow(nparts, comm, pid, cpu, tty, stat) ==
    [nparts |-> nparts, comm |-> comm, pid |-> pid, cpu |-> cpu, tty |-> tty,
     stat |-> stat, started |-> "10:00AM"]

Cpu(tenths) == [number |-> TRUE, tenths |-> tenths]
NotANumber  == [number |-> FALSE, tenths |-> 0]

PsRows ==
    UNION {
      { PsRow(11, <<"claude">>, pid, Cpu(25), <<"s0", "01">>, <<"S", "+">>),
        PsRow(12, <<"/", "usr", "/", "claude">>, pid, Cpu(10),
              <<"s0", "02">>, <<"R", "+">>),
        PsRow(11, <<"node">>, pid, Cpu(25), <<"s0", "01">>, <<"S", "+">>),
        PsRow(11, <<"claude">>, pid, Cpu(25), <<"??">>, <<"S", "+">>),
        PsRow(11, <<"claude">>, pid, Cpu(25), <<"s0", "01">>, <<"S">>),
        PsRow(11, <<"claude">>, pid, Cpu(9), <<"s0", "01">>, <<"S", "+">>),
        PsRow(11, <<"claude">>, pid, NotANumber, <<"s0", "01">>,
              <<"S", "+">>),
        PsRow(10, <<"claude">>, pid, Cpu(25), <<"s0", "01">>, <<"S", "+">>) }
      : pid \in Pids }

\* subprocess.run(["ps", "aux"], ...): it raises, or returns the lines.
PsOutcomes ==
    {[raised |-> TRUE, rows |-> << >>]} \cup
    {[raised |-> FALSE, rows |-> r] : r \in SeqsUpTo(PsRows, MaxProcs)}

EndsWith(str, suffix) ==
    /\ Len(str) >= Len(suffix)
    /\ SubSeq(str, Len(str) - Len(suffix) + 1, Len(str)) = suffix

StartsWith(str, prefix) ==
    /\ Len(str) >= Len(prefix)
    /\ SubSeq(str, 1, Len(prefix)) = prefix

\* float(cpu), with ValueError giving 0.0; in tenths.
CpuVal(cpu) == IF cpu.number THEN cpu.tenths ELSE 0

\* Lines 202-220: the rows that become entries of claude_pids.
RECURSIVE ClaudePids(_, _)
ClaudePids(rows, k) ==
    IF k > Len(rows) THEN << >>
    ELSE LET parts == rows[k]
             rest  == ClaudePids(rows, k + 1)
         IN  IF parts.nparts < 11 THEN rest
             ELSE IF ~(EndsWith(parts.comm, <<"/", "claude">>)
                       \/ parts.comm = <<"claude">>) THEN rest
             ELSE IF ~(/\ StartsWith(parts.tty, <<"s0">>)
                       /\ \E n \in DOMAIN parts.stat : parts.stat[n] = "+")
                  THEN rest
             ELSE IF CpuVal(parts.cpu) < 10 THEN rest
             ELSE << [pid |-> parts.pid, cpu |-> CpuVal(parts.cpu),
                      started |-> parts.started] >> \o rest

\* subprocess.run(["lsof", "-a", "-p", pid, "-d", "cwd"], ...): it raises
\* (timeout, lsof missing), or returns an exit code and stdout; stdout is
\* its lines after strip().split("\n"), each line its words.  lsof prints
\* nothing on stdout when it exits nonzero.
LsofRaised == [called |-> TRUE, raised |-> TRUE, rc |-> 0, lines |-> << >>]
LsofOut(rc, lines) ==
    [called |-> TRUE, raised |-> FALSE, rc |-> rc, lines |-> lines]
\* The iteration of the excluded pid calls nothing.
LsofNotCalled ==
    [called |-> FALSE, raised |-> FALSE, rc |-> 0, lines |-> << >>]

LsofHeader == << <<"COMMAND">>, <<"PID">>, <<"NAME">> >>

LsofOutcomes ==
    { LsofRaised,
      LsofOut(1, << >>),
      LsofOut(0, << LsofHeader,
                    << <<"claude">>, <<"cwd">>, <<"/", "a", "/", "b">> >> >>),
      \* a directory "/a/my dir": the last word is "dir"
      LsofOut(0, << LsofHeader,
                    << <<"claude">>, <<"cwd">>, <<"/", "a", "/", "my">>,
                       <<"dir">> >> >>) }

\* Lines 232-235: the last word of the last line; << >> stands for None.
CwdOf(o) ==
    IF o.raised THEN << >>
    ELSE IF o.lines = << >> THEN << >>
    ELSE LET cwd_line == o.lines[Len(o.lines)]
         IN  IF cwd_line = << >> THEN << >> ELSE cwd_line[Len(cwd_line)]

\* cwd.rsplit("/", 1)[-1] if "/" in cwd else cwd
ProjectShort(cwd) ==
    LET slashes == {n \in DOMAIN cwd : cwd[n] = "/"}
    IN  IF slashes = {} THEN cwd
        ELSE LET last == CHOOSE n \in slashes : \A m \in slashes : m <= n
             IN  SubSeq(cwd, last + 1, Len(cwd))

\* The newest transcript of a project, find_session_file(cwd): none, or a
\* file whose lines are what json.loads and the extraction make of them:
\*   "malformed"  json.loads raises JSONDecodeError;
\*   "nonobject"  it parses to null, a number, a string or an array;
\*   "user"       a user message with the text `text`;
\*   "badtext"    a message whose text block holds a text that is no string.
TLine(kind, text) == [kind |-> kind, text |-> text]

NoTranscript == [exists |-> FALSE, lines |-> << >>]

Transcripts ==
    { NoTranscript,
      [exists |-> TRUE,
       lines |-> << TLine("malformed", None), TLine("user", "u1"),
                    TLine("user", "u2") >>],
      [exists |-> TRUE,
       lines |-> << TLine("user", "u1"), TLine("nonobject", None) >>],
      [exists |-> TRUE, lines |-> << TLine("badtext", None) >>] }

\* The context of a project without a transcript: {}.
EmptyContext == [empty |-> TRUE, firstPrompt |-> None,
                 lastUserMessage |-> None]

\* extract_session_context on a transcript of at most 30 lines: both loops
\* read every line and catch JSONDecodeError and KeyError only; d.get on a
\* non-object and .strip() on a non-string raise AttributeError.
extract_session_context(t) ==
    LET users == SelectSeq(t.lines, LAMBDA l : l.kind = "user")
    IN  IF ~t.exists THEN Returned(EmptyContext)
        ELSE IF \E i \in DOMAIN t.lines :
                   t.lines[i].kind \in {"nonobject", "badtext"}
        THEN Raised
        ELSE Returned([empty |-> FALSE,
                       firstPrompt |-> IF users = << >> THEN None
                                       ELSE users[1].text,
                       lastUserMessage |-> IF users = << >> THEN None
                                           ELSE users[Len(users)].text])

\* Lines 222-257, one iteration of `for pid, cpu, started in claude_pids`
\* for candidate c with lsof outcome o and newest transcript t: the scan as
\* the iteration leaves it.  phase "raised": an exception has left
\* get_active_claude_sessions, and its list with it.
Iteration(sc, list, c, o, t) ==
    LET next == [sc EXCEPT !.i = sc.i + 1]
        cwd  == CwdOf(o)
        sid  == find_session_id_for_cwd(history, cwd)
        context == extract_session_context(t)
    IN  IF excludePid # 0 /\ c.pid = excludePid
        THEN [scan |-> next, list |-> list]
        ELSE IF cwd = << >> \/ ~StartsWith(cwd, <<"/">>)
        THEN [scan |-> next, list |-> list]
        ELSE IF sid.raised \/ context.raised
        THEN [scan |-> [sc EXCEPT !.phase = "raised"], list |-> << >>]
        ELSE [scan |-> next,
              list |-> Append(list,
                         [pid |-> c.pid, cpu |-> c.cpu,
                          started |-> c.started, cwd |-> cwd,
                          projectShort |-> ProjectShort(cwd),
                          sessionId |-> sid.value,
                          context |-> context.value])]

\* Lines 193-220: ps is run and its lines are filtered.
PsAux ==
    /\ scan.phase = "start"
    /\ IF psRun.raised
       THEN scan' = [scan EXCEPT !.phase = "returned"]
       ELSE scan' = [phase |-> "loop",
                     claude_pids |-> ClaudePids(psRun.rows, 1), i |-> 1]
    /\ sessions' = << >>
    /\ UNCHANGED <<psRun, excludePid, lsofRun, regVars, concVars, histVars>>

\* One iteration of the loop over claude_pids.
Lsof ==
    /\ scan.phase = "loop"
    /\ scan.i <= Len(scan.claude_pids)
    /\ LET c == scan.claude_pids[scan.i]
       IN  \E o \in IF excludePid # 0 /\ c.pid = excludePid
                    THEN {LsofNotCalled} ELSE LsofOutcomes :
           \E t \in Transcripts :
              LET r == Iteration(scan, sessions, c, o, t)
              IN  /\ scan' = r.scan
                  /\ sessions' = r.list
                  /\ lsofRun' = Append(lsofRun, o)
    /\ UNCHANGED <<psRun, excludePid, regVars, concVars, histVars>>

\* Line 259: return sessions.
Return ==
    /\ scan.phase = "loop"
    /\ scan.i > Len(scan.claude_pids)
    /\ scan' = [scan EXCEPT !.phase = "returned"]
    /\ UNCHANGED <<psRun, excludePid, lsofRun, sessions, regVars, concVars,
                   histVars>>

\* The history logs of the scans.
DiscoverHistories ==
    { [exists |-> FALSE, lines |-> << >>],
      [exists |-> TRUE,
       lines |-> << Object({"project", "sessionId"},
                           <<"/", "a", "/", "b">>, "s1", None),
                    Malformed,
                    Object({"project", "sessionId"}, <<"/", "a">>, "s2",
                           None) >>],
      [exists |-> TRUE,
       lines |-> << Object({"project", "sessionId"},
                           <<"/", "a", "/", "b">>, "s1", None),
                    NonObject >>] }

InitDiscover == /\ psRun \in PsOutcomes
                /\ excludePid \in {0} \cup Pids
                /\ lsofRun = << >>
                /\ scan = [phase |-> "start", claude_pids |-> << >>, i |-> 1]
                /\ sessions = << >>
                /\ history \in DiscoverHistories
                /\ target = << >>
                /\ found = [ran |-> FALSE, raised |-> FALSE, value |-> None]
                /\ hexit = 0
                /\ IdleReg /\ IdleConc

NextDiscover == PsAux \/ Lsof \/ Return

SpecDiscover == InitDiscover /\ [][NextDiscover]_vars

-----------------------------------------------------------------------------
(* Properties of Spec *)

\* The entries load_registry finds in a file (none where it raises).
Entries(f) ==
    LET registry == load_registry(f)
    IN  IF registry.raised THEN << >> ELSE registry.value.conversations

\* The entries of the file as a command finds them, and as it leaves them.
Was == Entries(before)
Now == Entries(file)

IdsOf(convs) == {convs[i].id : i \in DOMAIN convs}

\* The ids a list output shows under one section, in printed order.
ItemsUnder(o, section) ==
    LET items == SelectSeq(o, LAMBDA m : m.kind = "item" /\ m.section = section)
    IN  [k \in DOMAIN items |-> items[k].id]

AllItems(o) == SelectSeq(o, LAMBDA m : m.kind = "item")

IdsWith(convs, status) ==
    LET sel == SelectSeq(convs, LAMBDA c : c.status = status)
    IN  [k \in DOMAIN sel |-> sel[k].id]

\* C1: `save --session-id S` when the registry holds an active entry for S
\* leaves the file exactly as it was without writing it, reports "already
\* saved" and exits 0, whatever the project and description arguments.
C1_SaveActiveIsNoOp ==
    (/\ cmd.name = "save"
     /\ \E i \in DOMAIN Was : /\ Was[i].sessionId = cmd.session_id
                              /\ Was[i].status = "active")
    => /\ file = before
       /\ ~wrote
       /\ exitcode = 0
       /\ Len(out) = 1
       /\ out[1].kind = "already_saved"

\* C1 witness: an active session is saved again with another project and
\* another description than the ones its entry holds.
C1_Witness ==
    /\ cmd.name = "save"
    /\ Len(Was) = 2
    /\ \E i \in DOMAIN Was : /\ Was[i].sessionId = cmd.session_id
                             /\ Was[i].status = "active"
                             /\ Was[i].project # cmd.project
                             /\ Truthy(cmd.description)
                             /\ Was[i].description # cmd.description
    /\ out[1].kind = "already_saved"

\* C2: `save --session-id S` when the entry for S is done or removed sets
\* that entry's status to active, keeps its id, appends nothing and leaves
\* every other entry as it was.
C2_SaveReactivatesInPlace ==
    \A i \in DOMAIN Was :
        (/\ cmd.name = "save"
         /\ Was[i].sessionId = cmd.session_id
         /\ Was[i].status \in {"done", "removed"})
        => /\ Len(Now) = Len(Was)
           /\ Now[i].status = "active"
           /\ Now[i].id = Was[i].id
           /\ Now[i].sessionId = Was[i].sessionId
           /\ \A j \in DOMAIN Was : j # i => Now[j] = Was[j]

\* C2 witness: a removed entry, first of two, has just been reactivated.
C2_Witness ==
    /\ cmd.name = "save"
    /\ Len(Was) = 2
    /\ Was[1].sessionId = cmd.session_id
    /\ Was[1].status = "removed"
    /\ Now[1].status = "active"
    /\ Now[2] = Was[2]
    /\ wrote

\* C3: next_id is 1 for an empty registry and otherwise one more than the
\* largest id; and `save` of a session id with no entry appends exactly one
\* active entry whose id is greater than every id already there (1 when
\* there is none), leaving the existing entries unchanged.
C3_NextIdAndAppend ==
    /\ LET n == next_id([conversations |-> Now])
       IN  /\ Now = << >> => n = 1
           /\ Now # << >> => /\ n - 1 \in IdsOf(Now)
                             /\ \A k \in IdsOf(Now) : k <= n - 1
    /\ (/\ cmd.name = "save"
        /\ \A i \in DOMAIN Was : Was[i].sessionId # cmd.session_id)
       => /\ Len(Now) = Len(Was) + 1
          /\ SubSeq(Now, 1, Len(Was)) = Was
          /\ Now[Len(Now)].status = "active"
          /\ Now[Len(Now)].sessionId = cmd.session_id
          /\ \A k \in IdsOf(Was) : Now[Len(Now)].id > k
          /\ Was = << >> => Now[Len(Now)].id = 1

\* C4: `done --id` and `remove --id` with an id no entry carries leave the
\* file unchanged and exit nonzero; with an id some entry carries they exit
\* zero.
C4_UnknownIdFails ==
    cmd.name \in {"done", "remove"}
    => IF cmd.id \in IdsOf(Was)
       THEN exitcode = 0
       ELSE /\ file = before
            /\ ~wrote
            /\ exitcode # 0

\* C4 witness: `done` with an unknown id on a registry that holds an entry.
C4_Witness ==
    /\ cmd.name = "done"
    /\ Was # << >>
    /\ cmd.id \notin IdsOf(Was)
    /\ exitcode = 1

\* The status changes the lifecycle of the data model allows.
Lifecycle(name, from, to) ==
    \/ from = "active" /\ to = "done" /\ name = "done"
    \/ from = "active" /\ to = "removed" /\ name = "remove"
    \/ from # "active" /\ to = "active" /\ name = "save"

\* C5: an entry's status only changes active -> done (by done), active ->
\* removed (by remove) and non-active -> active (by save); done or remove on
\* an entry that is not active never changes its status.
C5_StatusFollowsLifecycle ==
    \A i \in DOMAIN Was :
        Now[i].status # Was[i].status
        => Lifecycle(cmd.name, Was[i].status, Now[i].status)

\* C6: the default `list` shows exactly the active entries; `list --all`
\* shows every entry under the section of its status; done and remove never
\* delete an entry; and after `done --id N` on an active entry, N is absent
\* from the default view and present in the --all view.
C6_ListViews ==
    /\ (cmd.name = "list" /\ ~cmd.all)
       => /\ ItemsUnder(out, "Active") = IdsWith(Now, "active")
          /\ Len(AllItems(out)) = Len(IdsWith(Now, "active"))
    /\ (cmd.name = "list" /\ cmd.all)
       => /\ ItemsUnder(out, "Active") = IdsWith(Now, "active")
          /\ ItemsUnder(out, "Completed") = IdsWith(Now, "done")
          /\ ItemsUnder(out, "Removed") = IdsWith(Now, "removed")
          /\ Len(AllItems(out)) = Len(Now)
    /\ cmd.name \in {"done", "remove"}
       => /\ Len(Now) = Len(Was)
          /\ \A i \in DOMAIN Was : Now[i].id = Was[i].id
    /\ \A i \in DOMAIN Was :
          (cmd.name = "done" /\ Was[i].id = cmd.id /\ Was[i].status = "active")
          => LET registry == [conversations |-> Now]
                 default == cmd_list(registry,
                               Args("list", None, None, None, 0, FALSE))
                 all     == cmd_list(registry,
                               Args("list", None, None, None, 0, TRUE))
             IN  /\ \A k \in DOMAIN default.out : default.out[k].id # cmd.id
                 /\ \E k \in DOMAIN all.out : /\ all.out[k].kind = "item"
                                              /\ all.out[k].id = cmd.id
                                              /\ all.out[k].section = "Completed"

\* C6 witness: `list --all` has printed an active and a completed entry.
C6_Witness ==
    /\ cmd.name = "list"
    /\ cmd.all
    /\ Len(ItemsUnder(out, "Active")) = 1
    /\ Len(ItemsUnder(out, "Completed")) = 1

-----------------------------------------------------------------------------
(* Properties of SpecConc *)

\* C7: when two invocations race, each loading the whole registry and
\* later overwriting it, no state of the file mixes parts of two documents,
\* and once both have finished the file is exactly the document that the
\* invocation that saved last wrote.
C7_LastWriteWins ==
    /\ file.text # "mixed"
    /\ (written # << >> /\ \A p \in Procs : pc[p] = "idle")
       => /\ file.text = "whole"
          /\ file.doc = written[Len(written)].doc

\* C10: from an absent or empty registry, under any interleaving of the
\* invocations' steps, no two entries that load_registry finds in the file
\* share an id and no two share a session id; and as long as every save ran
\* as one step (no step on the file fell between a process's open and its
\* dump, and no process is between the two), the file is one whole document.
C10_UniqueIdsAndSessions ==
    /\ \A i, j \in DOMAIN Now :
          i # j => /\ Now[i].id # Now[j].id
                   /\ Now[i].sessionId # Now[j].sessionId
    /\ (~torn /\ file.exists /\ \A p \in Procs : pc[p] # "opened")
       => file.text = "whole"

\* C10 witness: every save so far ran as one step, the file holds two
\* entries, and a process is between its load and its save with a document
\* that is no longer the file's, the other process having saved since.
C10_Witness ==
    /\ ~torn
    /\ Len(Now) = 2
    /\ written # << >>
    /\ file.doc = written[1].doc
    /\ \E p \in Procs : /\ pc[p] \in {"loaded", "handled"}
                        /\ written[1].proc # p
                        /\ local[p] # file.doc

-----------------------------------------------------------------------------
(* Properties of SpecHistory *)

\* The last of the indices `hits` (0: there is none).
LastIndex(hits) ==
    IF hits = {} THEN 0
    ELSE CHOOSE i \in hits : \A j \in hits : j <= i

\* The session id recorded on line i (none: i = 0, or no sessionId there).
RecordedAt(lines, i) ==
    IF i = 0 THEN None
    ELSE IF "sessionId" \in lines[i].keys THEN lines[i].sessionId ELSE None

\* C8: for every log of malformed lines and parseable JSON values and every
\* target, the scan returns the sessionId recorded on the last line whose
\* project field (the empty path for a line without one) equals the target,
\* none when no line matches or the file is absent, and never aborts.
C8_LastMatchForAnyJsonValue ==
    found.ran
    => LET HasTarget(l) == /\ l.kind = "object"
                           /\ GetProject(l) = target
       IN  /\ ~found.raised
           /\ found.value =
                 RecordedAt(history.lines,
                            LastIndex({i \in DOMAIN history.lines :
                                          HasTarget(history.lines[i])}))

-----------------------------------------------------------------------------
(* Properties of SpecDiscover *)

\* The lookup of iteration k gave an absolute path.
LookupOk(k) ==
    /\ lsofRun[k].called
    /\ ~lsofRun[k].raised
    /\ lsofRun[k].rc = 0
    /\ lsofRun[k].lines # << >>
    /\ LET w == lsofRun[k].lines[Len(lsofRun[k].lines)]
       IN  w[Len(w)][1] = "/"

\* The iterations made so far whose candidate is kept, in order.
KeptIterations ==
    SelectSeq([k \in 1 .. Len(lsofRun) |-> k],
              LAMBDA k : /\ ~(excludePid # 0
                              /\ scan.claude_pids[k].pid = excludePid)
                         /\ LookupOk(k))

\* C9: a lookup that fails (it raises, exits nonzero, or gives no absolute
\* path) drops that process only and the scan goes on: the result holds one
\* record for each candidate that is not excluded and whose lookup
\* succeeded, in process-list order, never one for the caller's pid; and
\* a failure of the process listing gives an empty result.
C9_FailedLookupDropsOneProcess ==
    /\ scan.phase # "raised"
    /\ (scan.phase = "returned" /\ psRun.raised) => sessions = << >>
    /\ (scan.phase \in {"loop", "returned"} /\ ~psRun.raised)
       => /\ Len(lsofRun) = scan.i - 1
          /\ scan.phase = "returned" => Len(lsofRun) = Len(scan.claude_pids)
          /\ Len(sessions) = Len(KeptIterations)
          /\ \A j \in DOMAIN sessions :
                LET k == KeptIterations[j]
                    w == lsofRun[k].lines[Len(lsofRun[k].lines)]
                IN  /\ sessions[j].pid = scan.claude_pids[k].pid
                    /\ sessions[j].cwd = w[Len(w)]
    /\ \A j \in DOMAIN sessions :
          excludePid # 0 => sessions[j].pid # excludePid

=============================================================================
